---------------------------- MODULE Spec2Model ----------------------------
(***************************************************************************)
(* Model of renamevideos.py: discovery of video files under a root         *)
(* directory, extraction of their metadata through ffmpeg.probe in         *)
(* executor tasks, and construction of the metadata-based file names.      *)
(*                                                                         *)
(* A Python str is a sequence of one-character strings, a pathlib.Path is  *)
(* the tuple of its parts (an absolute path starts with the anchor "/" or  *)
(* "//"), and a value that may be None is Some(v) or None.                 *)
(***************************************************************************)
EXTENDS Integers, Sequences, FiniteSets, TLC

VARIABLES disk, pc, args, tasks, metadata_tasks, renamed, output, status,
          call, ret

vars == <<disk, pc, args, tasks, metadata_tasks, renamed, output, status,
          call, ret>>

-----------------------------------------------------------------------------
(* Bounds of the model.                                                    *)

MaxFiles == 3

MaxNodes == 3

MaxVerbose == 3

RenameNodes == 2

-----------------------------------------------------------------------------
(* Optional values and strings.                                            *)

None == [some |-> FALSE]

Some(v) == [some |-> TRUE, v |-> v]

DigitChars == <<"0", "1", "2", "3", "4", "5", "6", "7", "8", "9">>

UpperChars == <<"A", "B", "C", "D", "E", "F", "G", "H", "I", "J", "K", "L", "M",
                "N", "O", "P", "Q", "R", "S", "T", "U", "V", "W", "X", "Y", "Z">>

LowerChars == <<"a", "b", "c", "d", "e", "f", "g", "h", "i", "j", "k", "l", "m",
                "n", "o", "p", "q", "r", "s", "t", "u", "v", "w", "x", "y", "z">>

IsDigit(c) == \E i \in 1..10 : DigitChars[i] = c

DigitVal(c) == (CHOOSE i \in 1..10 : DigitChars[i] = c) - 1

(* str.lower() on one character, then on a string *)
LowerChar(c) ==
    IF \E i \in 1..26 : UpperChars[i] = c
    THEN LowerChars[CHOOSE i \in 1..26 : UpperChars[i] = c]
    ELSE c

Lower(s) == [i \in 1..Len(s) |-> LowerChar(s[i])]

(* str(n), as the f-string fields of rename_video_file format an int *)
RECURSIVE NatStr(_)
NatStr(n) ==
    IF n < 10 THEN <<DigitChars[n + 1]>>
    ELSE NatStr(n \div 10) \o <<DigitChars[(n % 10) + 1]>>

IntStr(n) == IF n < 0 THEN <<"-">> \o NatStr(0 - n) ELSE NatStr(n)

(* a strftime field of fixed width w, zero padded *)
RECURSIVE Pad(_, _)
Pad(n, w) ==
    IF w = 0 THEN <<>>
    ELSE Pad(n \div 10, w - 1) \o <<DigitChars[(n % 10) + 1]>>

(* the value of the digits s[pos .. pos+len-1] *)
RECURSIVE DigitsVal(_, _, _)
DigitsVal(s, pos, len) ==
    IF len = 0 THEN 0
    ELSE DigitsVal(s, pos, len - 1) * 10 + DigitVal(s[pos + len - 1])

(* the length of the run of digits of s that starts at pos *)
RECURSIVE DigitRun(_, _)
DigitRun(s, pos) ==
    IF pos > Len(s) \/ ~IsDigit(s[pos]) THEN 0
    ELSE 1 + DigitRun(s, pos + 1)

(* int(s) of a str: an optional sign and decimal digits; anything else is   *)
(* a ValueError.  (int also strips blanks and skips single underscores,    *)
(* which the strings of this model do not contain.)                        *)
ParseInt(s) ==
    LET signed == Len(s) >= 1 /\ s[1] \in {"-", "+"}
        first  == IF signed THEN 2 ELSE 1
        n      == DigitRun(s, first)
    IN  IF n >= 1 /\ first + n - 1 = Len(s)
        THEN [ok |-> TRUE,
              v  |-> IF signed /\ s[1] = "-"
                     THEN 0 - DigitsVal(s, first, n)
                     ELSE DigitsVal(s, first, n)]
        ELSE [ok |-> FALSE, exc |-> "ValueError"]

(* s.split("/")[0] *)
RECURSIVE SplitFirst(_, _)
SplitFirst(s, sep) ==
    IF s = <<>> \/ Head(s) = sep THEN <<>>
    ELSE <<Head(s)>> \o SplitFirst(Tail(s), sep)

(* sep.join(items) *)
RECURSIVE Join(_, _)
Join(sep, items) ==
    IF items = <<>> THEN <<>>
    ELSE IF Len(items) = 1 THEN items[1]
    ELSE items[1] \o sep \o Join(sep, Tail(items))

-----------------------------------------------------------------------------
(* pathlib.  A path is the tuple of its parts.                             *)

IsAnchor(part) == part = <<"/">> \/ part = <<"/", "/">>

IsAbsolute(p) == Len(p) >= 1 /\ IsAnchor(p[1])

(* the parts of the relative remainder of a path string: split on "/",     *)
(* empty and "." components dropped                                        *)
RECURSIVE SplitParts(_, _)
SplitParts(s, cur) ==
    IF s = <<>>
    THEN IF cur = <<>> \/ cur = <<".">> THEN <<>> ELSE <<cur>>
    ELSE IF Head(s) = "/"
    THEN (IF cur = <<>> \/ cur = <<".">> THEN <<>> ELSE <<cur>>)
         \o SplitParts(Tail(s), <<>>)
    ELSE SplitParts(Tail(s), Append(cur, Head(s)))

(* Path(s): exactly two leading slashes form the anchor "//", one or three *)
(* and more the anchor "/"                                                 *)
PathOf(s) ==
    LET lead == IF Len(s) >= 1 /\ s[1] = "/"
                THEN IF Len(s) >= 2 /\ s[2] = "/" /\ ~(Len(s) >= 3 /\ s[3] = "/")
                     THEN <<<<"/", "/">>>>
                     ELSE <<<<"/">>>>
                ELSE <<>>
    IN  lead \o SplitParts(s, <<>>)

(* Path.joinpath(base, s): an absolute argument replaces the base *)
JoinPath(base, s) ==
    LET q == PathOf(s)
    IN  IF IsAbsolute(q) THEN q ELSE base \o q

(* Path.parent: the anchor and the empty path are their own parent *)
Parent(p) ==
    IF Len(p) = 0 \/ (Len(p) = 1 /\ IsAnchor(p[1])) THEN p
    ELSE SubSeq(p, 1, Len(p) - 1)

(* Path.name *)
Name(p) ==
    IF Len(p) = 0 \/ (Len(p) = 1 /\ IsAnchor(p[1])) THEN <<>>
    ELSE p[Len(p)]

(* the index of the last "." of a name, 0 when there is none (str.rfind + 1) *)
RECURSIVE LastDot(_, _)
LastDot(n, i) ==
    IF i = 0 THEN 0
    ELSE IF n[i] = "." THEN i
    ELSE LastDot(n, i - 1)

(* Path.suffix: the last dot counts when it is neither the first nor the   *)
(* last character of the name                                              *)
Suffix(p) ==
    LET n == Name(p)
        i == LastDot(n, Len(n))
    IN  IF 1 < i /\ i < Len(n) THEN SubSeq(n, i, Len(n)) ELSE <<>>

(* Path.stem *)
Stem(p) ==
    LET n == Name(p)
        i == LastDot(n, Len(n))
    IN  IF 1 < i /\ i < Len(n) THEN SubSeq(n, 1, i - 1) ELSE n

-----------------------------------------------------------------------------
(* datetime.                                                               *)

IsLeap(y) == (y % 4 = 0 /\ y % 100 # 0) \/ y % 400 = 0

DaysInMonth(y, m) ==
    IF m = 2 THEN (IF IsLeap(y) THEN 29 ELSE 28)
    ELSE IF m \in {4, 6, 9, 11} THEN 30
    ELSE 31

RECURSIVE Pow10(_)
Pow10(k) == IF k = 0 THEN 1 ELSE 10 * Pow10(k - 1)

(* a literal of the format at position i; strptime compiles its pattern    *)
(* with re.IGNORECASE                                                      *)
At(s, i, c) == i <= Len(s) /\ LowerChar(s[i]) = LowerChar(c)

(* datetime.strptime(s, "%Y-%m-%dT%H:%M:%S.%fZ").  Every directive is a    *)
(* run of digits closed by the next literal: %Y is \d\d\d\d, %m is         *)
(* 1[0-2]|0[1-9]|[1-9], %d is 3[0-1]|[1-2]\d|0[1-9]|[1-9]| [1-9], %H is    *)
(* 2[0-3]|[0-1]\d|\d, %M is [0-5]\d|\d, %S is 6[0-1]|[0-5]\d|\d and %f is  *)
(* [0-9]{1,6}.  The datetime constructor then rejects year 0, a day past   *)
(* the end of the month and a second above 59.                             *)
Strptime(s) ==
    LET ly  == DigitRun(s, 1)
        pm  == ly + 2
        lm  == DigitRun(s, pm)
        pd0 == pm + lm + 1
        sp  == pd0 <= Len(s) /\ s[pd0] = " "
        pd  == IF sp THEN pd0 + 1 ELSE pd0
        ld  == DigitRun(s, pd)
        pH  == pd + ld + 1
        lH  == DigitRun(s, pH)
        pM  == pH + lH + 1
        lM  == DigitRun(s, pM)
        pS  == pM + lM + 1
        lS  == DigitRun(s, pS)
        pf  == pS + lS + 1
        lf  == DigitRun(s, pf)
        pZ  == pf + lf
        year   == DigitsVal(s, 1, ly)
        month  == DigitsVal(s, pm, lm)
        day    == DigitsVal(s, pd, ld)
        hour   == DigitsVal(s, pH, lH)
        minute == DigitsVal(s, pM, lM)
        second == DigitsVal(s, pS, lS)
        matches ==
            /\ ly = 4 /\ At(s, 5, "-")
            /\ lm \in 1..2 /\ month \in 1..12 /\ At(s, pd0 - 1, "-")
            /\ IF sp THEN ld = 1 /\ day \in 1..9
                     ELSE ld \in 1..2 /\ day \in 1..31
            /\ At(s, pH - 1, "T")
            /\ lH \in 1..2 /\ hour \in 0..23 /\ At(s, pM - 1, ":")
            /\ lM \in 1..2 /\ minute \in 0..59 /\ At(s, pS - 1, ":")
            /\ lS \in 1..2 /\ second \in 0..61 /\ At(s, pf - 1, ".")
            /\ lf \in 1..6 /\ At(s, pZ, "Z")
            /\ Len(s) = pZ
        valid == year >= 1 /\ day <= DaysInMonth(year, month) /\ second <= 59
    IN  IF matches /\ valid
        THEN [ok |-> TRUE,
              v  |-> [year |-> year, month |-> month, day |-> day,
                      hour |-> hour, minute |-> minute, second |-> second,
                      microsecond |-> DigitsVal(s, pf, lf) * Pow10(6 - lf)]]
        ELSE [ok |-> FALSE, exc |-> "ValueError"]

(* creation_time.strftime("%Y-%m-%dT%H%M%S").  Below year 1000 the C       *)
(* library decides whether %Y is padded; the years of this model are not.  *)
Strftime(dt) ==
    Pad(dt.year, 4) \o <<"-">> \o Pad(dt.month, 2) \o <<"-">> \o Pad(dt.day, 2)
    \o <<"T">> \o Pad(dt.hour, 2) \o Pad(dt.minute, 2) \o Pad(dt.second, 2)

-----------------------------------------------------------------------------
(* Metadata extraction.                                                    *)

(* what a function call gives back: a VideoInfo, None, or an exception *)
ReturnInfo(info) == [ret |-> "VideoInfo", info |-> info]

ReturnNone == [ret |-> "None"]

Raise(exc) == [ret |-> "raise", exc |-> exc]

(* ffmpeg.probe(filename): the outcome ffprobe has on the entry of the     *)
(* disk at that path, either ffmpeg.Error or the decoded JSON              *)
Probe(d, filename) == (CHOOSE e \in d : e.path = filename).media

(* the index of the first stream with codec_type "video", 0 when next()    *)
(* finds none                                                              *)
RECURSIVE FirstVideo(_, _)
FirstVideo(streams, i) ==
    IF i > Len(streams) THEN 0
    ELSE IF streams[i].codec_type = "video" THEN i
    ELSE FirstVideo(streams, i + 1)

parse_video_file(d, filename) ==
    LET probe == Probe(d, filename)
        k     == FirstVideo(probe.streams, 1)
        info  == probe.streams[k]
        rate  == ParseInt(SplitFirst(info.r_frame_rate.v, "/"))
        tags  == info.tags.v
        time  == Strptime(tags.creation_time.v)
    IN  IF probe.error THEN ReturnNone
        ELSE IF k = 0 THEN Raise("StopIteration")
        ELSE IF ~info.r_frame_rate.some THEN Raise("AttributeError")
        ELSE IF ~rate.ok THEN Raise("ValueError")
        ELSE IF ~info.width.some \/ ~info.height.some THEN Raise("TypeError")
        ELSE IF ~info.tags.some THEN Raise("AttributeError")
        ELSE IF ~tags.creation_time.some THEN Raise("TypeError")
        ELSE IF ~time.ok THEN Raise("ValueError")
        ELSE ReturnInfo([path          |-> filename,
                         fps           |-> rate.v,
                         resolution    |-> <<info.width.v, info.height.v>>,
                         creation_time |-> time.v])

-----------------------------------------------------------------------------
(* Renaming.                                                               *)

SEP == <<"_">>

(* the new file name with the extension left as it is *)
NewFilenameKeepCase(video_info, prefix) ==
    LET resolution    == IntStr(video_info.resolution[1]) \o <<"x">>
                         \o IntStr(video_info.resolution[2])
        fps           == IntStr(video_info.fps) \o <<"f", "p", "s">>
        creation_time == Strftime(video_info.creation_time)
        metadata      == Join(SEP, <<resolution, fps, creation_time>>)
        pre           == IF prefix # <<>> THEN prefix ELSE Stem(video_info.path)
    IN  pre \o SEP \o metadata \o Suffix(video_info.path)

(* lines 128-135: the new file name *)
NewFilename(video_info, prefix) ==
    LET resolution    == IntStr(video_info.resolution[1]) \o <<"x">>
                         \o IntStr(video_info.resolution[2])
        fps           == IntStr(video_info.fps) \o <<"f", "p", "s">>
        creation_time == Strftime(video_info.creation_time)
        metadata      == Join(SEP, <<resolution, fps, creation_time>>)
        pre           == IF prefix # <<>> THEN prefix ELSE Stem(video_info.path)
    IN  pre \o SEP \o metadata \o Lower(Suffix(video_info.path))

(* line 138: the target path *)
TargetPath(video_info, prefix) ==
    JoinPath(Parent(video_info.path), NewFilename(video_info, prefix))

(* lines 139-140: what the call prints *)
RenameOutput(video_info, prefix, verbose) ==
    IF verbose >= 2
    THEN <<[msg |-> "Renaming", src |-> video_info.path,
            dst |-> TargetPath(video_info, prefix)]>>
    ELSE <<>>

(* the disk had the call moved the file unless dry_run is set *)
RenameDiskMoving(d, video_info, prefix, dry_run) ==
    IF dry_run THEN d
    ELSE {IF e.path = video_info.path
          THEN [e EXCEPT !.path = TargetPath(video_info, prefix)]
          ELSE e : e \in d}

(* lines 137-140: the disk after the call; the function calls no           *)
(* filesystem operation and never reads dry_run                            *)
RenameDisk(d, video_info, prefix, dry_run) == d

(* rename_video_file(video_info, prefix, dry_run, verbose), video being    *)
(* what parse_video_file returned: None has no attribute resolution, so    *)
(* line 130 raises AttributeError                                          *)
rename_video_file(d, video, prefix, dry_run, verbose) ==
    IF video.ret # "VideoInfo"
    THEN [ret |-> "raise", exc |-> "AttributeError", disk |-> d, output |-> <<>>]
    ELSE [ret          |-> "None",
          new_filename |-> NewFilename(video.info, prefix),
          p            |-> TargetPath(video.info, prefix),
          disk         |-> RenameDisk(d, video.info, prefix, dry_run),
          output       |-> RenameOutput(video.info, prefix, verbose)]

-----------------------------------------------------------------------------
(* Discovery.  The disk is the set of the entries below the input root:    *)
(* [path, kind, media], kind being "dir", "file" or "fifo" (an entry that  *)
(* is neither a directory nor a regular file) and media what ffprobe       *)
(* reports on it.                                                          *)

DefaultExt == <<".", "m", "p", "4">>

(* some enumeration of a finite set *)
RECURSIVE SeqOf(_)
SeqOf(S) ==
    IF S = {} THEN <<>>
    ELSE LET x == CHOOSE y \in S : TRUE
         IN  <<x>> \o SeqOf(S \ {x})

(* root.iterdir(): the entries of one directory, in an arbitrary order     *)
(* that is fixed for a fixed disk                                          *)
Iterdir(d, dir) == SeqOf({e \in d : Len(e.path) = Len(dir) + 1 /\ Parent(e.path) = dir})

(* line 75: path.is_dir() *)
IsDir(e) == e.kind = "dir"

(* line 77: path.is_file, the bound method and not its call, is true of    *)
(* every entry                                                             *)
IsFileAttr(e) == TRUE

(* line 76: the recursive call passes no ext, so a subdirectory is         *)
(* searched with the default extension                                     *)
RecursionExt(ext) == DefaultExt

(* line 77: the suffix is lowercased, ext is compared as given *)
ExtMatches(path, ext) == Lower(Suffix(path)) = ext

RECURSIVE find_video_files(_, _, _)
RECURSIVE FindEntries(_, _, _)
find_video_files(d, root, ext) == FindEntries(d, Iterdir(d, root), ext)

(* the loop of lines 74-78 over the entries of one directory *)
FindEntries(d, entries, ext) ==
    IF entries = <<>> THEN <<>>
    ELSE LET e == Head(entries)
         IN  (IF IsDir(e) THEN find_video_files(d, e.path, RecursionExt(ext))
              ELSE IF IsFileAttr(e) /\ ExtMatches(e.path, ext) THEN <<e.path>>
              ELSE <<>>)
             \o FindEntries(d, Tail(entries), ext)

(* build_video_list(path, verbose): the list and what it prints *)
build_video_list(d, path, verbose) ==
    LET video_files == find_video_files(d, PathOf(path), DefaultExt)
    IN  [files  |-> video_files,
         output |-> IF verbose >= 1
                    THEN <<[msg |-> "Found", n |-> Len(video_files), path |-> path]>>
                    ELSE <<>>]

-----------------------------------------------------------------------------
(* The inputs of the model.                                                *)

RootArg == <<"r">>

Root == PathOf(RootArg)

Letters == <<"a", "b", "c", "d", "e">>

Str_mp4 == <<".", "m", "p", "4">>

Str_MP4 == <<".", "M", "P", "4">>

Str_mkv == <<".", "m", "k", "v">>

Time_ok == <<"2", "0", "2", "3", "-", "0", "5", "-", "0", "1", "T", "1", "2", ":",
             "3", "0", ":", "0", "0", ".", "0", "0", "0", "0", "0", "0", "Z">>

Time_late == <<"1", "9", "9", "9", "-", "1", "2", "-", "3", "1", "T", "2", "3", ":",
               "5", "9", ":", "5", "9", ".", "1", "2", "3", "4", "5", "6", "Z">>

(* no fractional seconds *)
Time_nofrac == <<"2", "0", "2", "3", "-", "0", "5", "-", "0", "1", "T", "1", "2", ":",
                 "3", "0", ":", "0", "0", "Z">>

(* a blank instead of the T *)
Time_blank == <<"2", "0", "2", "3", "-", "0", "5", "-", "0", "1", " ", "1", "2", ":",
                "3", "0", ":", "0", "0", ".", "0", "0", "0", "0", "0", "0", "Z">>

(* the 30th of February *)
Time_feb30 == <<"2", "0", "2", "3", "-", "0", "2", "-", "3", "0", "T", "1", "2", ":",
                "3", "0", ":", "0", "0", ".", "0", "0", "0", "0", "0", "0", "Z">>

Rate_30 == <<"3", "0", "/", "1">>

Rate_ntsc == <<"3", "0", "0", "0", "0", "/", "1", "0", "0", "1">>

Rate_bad == <<"x", "/", "1">>

Stream(codec, rate, width, height, tags) ==
    [codec_type |-> codec, r_frame_rate |-> rate, width |-> width,
     height |-> height, tags |-> tags]

Tags(t) == Some([creation_time |-> t])

AudioStream == Stream("audio", None, None, None, Tags(Some(Time_ok)))

(* ffprobe failed: ffmpeg.probe raises ffmpeg.Error *)
ErrorMedia == [error |-> TRUE, streams |-> <<>>]

Media(streams) == [error |-> FALSE, streams |-> streams]

OkMedia == Media(<<AudioStream,
                   Stream("video", Some(Rate_30), Some(1920), Some(1080),
                          Tags(Some(Time_ok)))>>)

BadTimeMedia == Media(<<Stream("video", Some(Rate_30), Some(1920), Some(1080),
                               Tags(Some(Time_nofrac)))>>)

NoVideoMedia == Media(<<AudioStream>>)

(* the media of the batches of main *)
MainMedia == {OkMedia, ErrorMedia, BadTimeMedia, NoVideoMedia}

(* the video streams of the extraction inputs *)
VideoStreams ==
    {Stream("video", rate, width, height, tags) :
        rate   \in {None, Some(Rate_30), Some(Rate_ntsc), Some(Rate_bad)},
        width  \in {None, Some(1920), Some(640)},
        height \in {None, Some(1080)},
        tags   \in {None, Tags(None), Tags(Some(Time_ok)), Tags(Some(Time_late)),
                    Tags(Some(Time_nofrac)), Tags(Some(Time_blank)),
                    Tags(Some(Time_feb30))}}

AllMedia ==
    {ErrorMedia, NoVideoMedia, Media(<<>>)}
    \cup {Media(<<v>>) : v \in VideoStreams}
    \cup {Media(<<AudioStream, v>>) : v \in VideoStreams}

(* a tree of n entries: entry i is named Letters[i] plus a suffix and lies *)
(* in the root (parent 0) or in an earlier entry that is a directory       *)
Trees(n, kinds, suffixes, medias) ==
    {t \in [1..n -> [parent : 0..(IF n = 0 THEN 0 ELSE n - 1), kind : kinds,
                     suffix : suffixes, media : medias]] :
        \A i \in 1..n :
            /\ t[i].parent < i
            /\ t[i].parent # 0 => t[t[i].parent].kind = "dir"
            /\ t[i].kind # "file" => t[i].media = ErrorMedia}

RECURSIVE NodePath(_, _)
NodePath(t, i) ==
    IF i = 0 THEN Root
    ELSE Append(NodePath(t, t[i].parent), <<Letters[i]>> \o t[i].suffix)

DiskOf(t) ==
    {[path |-> NodePath(t, i), kind |-> t[i].kind, media |-> t[i].media] :
        i \in DOMAIN t}

(* the disks of the discovery inputs *)
FindDisks ==
    {DiskOf(t) : t \in Trees(MaxNodes, {"dir", "file", "fifo"},
                             {<<>>, Str_mp4, Str_MP4, Str_mkv}, {ErrorMedia})}

FindExts == {Str_mp4, Str_mkv, Str_MP4}

(* the disks of main: up to MaxFiles .mp4 files in the root directory *)
MainDisks ==
    UNION {{DiskOf(t) : t \in Trees(n, {"file"}, {Str_mp4}, MainMedia)} :
              n \in 0..MaxFiles}

Prefixes == {<<>>, <<"v", "a", "c", "a", "t", "i", "o", "n">>}

-----------------------------------------------------------------------------
(* main().                                                                 *)

NoArgs == [input_files |-> <<>>, prefix |-> <<>>, verbose |-> 0]

NoRet == [ret |-> "pending"]

MainVerbose == 0..2

Init ==
    /\ disk \in MainDisks
    /\ call \in {[fn |-> "main", input |-> RootArg, prefix |-> prefix, verbose |-> v] :
                    prefix \in Prefixes, v \in MainVerbose}
    /\ pc = "start"
    /\ args = NoArgs
    /\ tasks = <<>>
    /\ metadata_tasks = <<>>
    /\ renamed = <<>>
    /\ output = <<>>
    /\ status = "running"
    /\ ret = NoRet

Verbose1(line) == IF args.verbose >= 1 THEN <<line>> ELSE <<>>

(* line 148: parse_args() with build_video_list *)
ParseArgs ==
    /\ pc = "start"
    /\ LET l == build_video_list(disk, call.input, call.verbose)
       IN  /\ args' = [input_files |-> l.files, prefix |-> call.prefix,
                       verbose |-> call.verbose]
           /\ output' = output \o l.output
    /\ pc' = "dispatch"
    /\ UNCHANGED <<disk, tasks, metadata_tasks, renamed, status, call, ret>>

(* lines 152-153: one iteration of the loop submits one task *)
Dispatch ==
    /\ pc = "dispatch"
    /\ Len(tasks) < Len(args.input_files)
    /\ tasks' = Append(tasks, [file   |-> args.input_files[Len(tasks) + 1],
                               state  |-> "pending",
                               result |-> NoRet])
    /\ UNCHANGED <<disk, pc, args, metadata_tasks, renamed, output, status, call, ret>>

(* lines 155-156: the loop is over *)
Extracted ==
    /\ pc = "dispatch"
    /\ Len(tasks) = Len(args.input_files)
    /\ output' = output \o Verbose1([msg |-> "Extracted", n |-> Len(tasks)])
    /\ pc' = "gather"
    /\ UNCHANGED <<disk, args, tasks, metadata_tasks, renamed, status, call, ret>>

(* a thread of the default executor takes a submitted task; the pool has   *)
(* min(32, cpu_count + 4) threads, more than the batches of this model     *)
TaskStart ==
    \E i \in 1..Len(tasks) :
        /\ tasks[i].state = "pending"
        /\ tasks' = [tasks EXCEPT ![i].state = "running"]
        /\ UNCHANGED <<disk, pc, args, metadata_tasks, renamed, output, status, call, ret>>

(* the thread returns from parse_video_file, or leaves it by an exception *)
TaskFinish ==
    \E i \in 1..Len(tasks) :
        /\ tasks[i].state = "running"
        /\ tasks' = [tasks EXCEPT ![i].state = "done",
                                  ![i].result = parse_video_file(disk, tasks[i].file)]
        /\ UNCHANGED <<disk, pc, args, metadata_tasks, renamed, output, status, call, ret>>

(* a gather that returns with the first result *)
AllAwaitedFirst(ts, results) == results # <<>> \/ ts = <<>>

(* line 158: the comprehension ends when it has awaited every task *)
AllAwaited(ts, results) == Len(results) = Len(ts)

(* a gather in completion order: a finished task whose result was not     *)
(* gathered yet goes first                                                 *)
AwaitedTaskCompleted(ts, results) ==
    LET ready == {i \in 1..Len(ts) :
                     /\ ts[i].state = "done"
                     /\ \A j \in 1..Len(results) : results[j] # ts[i].result}
    IN  IF ready # {} THEN CHOOSE i \in ready : TRUE ELSE Len(results) + 1

(* line 158: the comprehension awaits the tasks in list order *)
AwaitedTask(ts, results) == Len(results) + 1

(* line 158: await task resumes main when the task is done *)
Awaitable(task) == task.state = "done"

(* line 158: the awaited task returned a value *)
AwaitTask ==
    /\ pc = "gather"
    /\ ~AllAwaited(tasks, metadata_tasks)
    /\ LET task == tasks[AwaitedTask(tasks, metadata_tasks)]
       IN  /\ Awaitable(task)
           /\ task.result.ret \in {"VideoInfo", "None"}
           /\ metadata_tasks' = Append(metadata_tasks, task.result)
    /\ UNCHANGED <<disk, pc, args, tasks, renamed, output, status, call, ret>>

(* line 158: the awaited task raised; the exception leaves main and        *)
(* asyncio.run, and the interpreter exits with status 1.  A StopIteration  *)
(* reaches main as a RuntimeError where asyncio converts it.               *)
AwaitRaise ==
    /\ pc = "gather"
    /\ ~AllAwaited(tasks, metadata_tasks)
    /\ LET task == tasks[AwaitedTask(tasks, metadata_tasks)]
       IN  /\ Awaitable(task)
           /\ task.result.ret = "raise"
           /\ output' = output \o <<[msg |-> "Traceback",
                                     exc |-> IF task.result.exc = "StopIteration"
                                             THEN "RuntimeError"
                                             ELSE task.result.exc]>>
    /\ pc' = "crashed"
    /\ status' = "exit 1"
    /\ UNCHANGED <<disk, args, tasks, metadata_tasks, renamed, call, ret>>

(* line 158: where asyncio refuses to set a StopIteration on the awaited   *)
(* future (TypeError in the callback), the future never resolves and main  *)
(* waits for ever                                                          *)
AwaitHang ==
    /\ pc = "gather"
    /\ ~AllAwaited(tasks, metadata_tasks)
    /\ LET task == tasks[AwaitedTask(tasks, metadata_tasks)]
       IN  /\ Awaitable(task)
           /\ task.result.ret = "raise"
           /\ task.result.exc = "StopIteration"
    /\ pc' = "hung"
    /\ UNCHANGED <<disk, args, tasks, metadata_tasks, renamed, output, status, call, ret>>

(* lines 159-160: every task was awaited *)
Renaming ==
    /\ pc = "gather"
    /\ AllAwaited(tasks, metadata_tasks)
    /\ output' = output \o Verbose1([msg |-> "Renaming", n |-> Len(metadata_tasks)])
    /\ pc' = "rename"
    /\ UNCHANGED <<disk, args, tasks, metadata_tasks, renamed, status, call, ret>>

(* lines 162-163: one iteration of the loop, rename_video_file returns *)
RenameStep ==
    /\ pc = "rename"
    /\ Len(renamed) < Len(metadata_tasks)
    /\ LET video == metadata_tasks[Len(renamed) + 1]
           r     == rename_video_file(disk, video, args.prefix, TRUE, args.verbose)
       IN  /\ r.ret = "None"
           /\ renamed' = Append(renamed, [src |-> video.info.path, dst |-> r.p])
           /\ output' = output \o r.output
           /\ disk' = r.disk
    /\ UNCHANGED <<pc, args, tasks, metadata_tasks, status, call, ret>>

(* lines 162-163: rename_video_file raises, the exception leaves main *)
RenameCrash ==
    /\ pc = "rename"
    /\ Len(renamed) < Len(metadata_tasks)
    /\ LET video == metadata_tasks[Len(renamed) + 1]
           r     == rename_video_file(disk, video, args.prefix, TRUE, args.verbose)
       IN  /\ r.ret = "raise"
           /\ output' = output \o <<[msg |-> "Traceback", exc |-> r.exc]>>
    /\ pc' = "crashed"
    /\ status' = "exit 1"
    /\ UNCHANGED <<disk, args, tasks, metadata_tasks, renamed, call, ret>>

(* lines 165-166: main returns, the interpreter exits with status 0 *)
Finish ==
    /\ pc = "rename"
    /\ Len(renamed) = Len(metadata_tasks)
    /\ output' = output \o Verbose1([msg |-> "Done"])
    /\ pc' = "done"
    /\ status' = "exit 0"
    /\ UNCHANGED <<disk, args, tasks, metadata_tasks, renamed, call, ret>>

Next ==
    \/ ParseArgs
    \/ Dispatch
    \/ Extracted
    \/ TaskStart
    \/ TaskFinish
    \/ AwaitTask
    \/ AwaitRaise
    \/ AwaitHang
    \/ Renaming
    \/ RenameStep
    \/ RenameCrash
    \/ Finish

Spec == Init /\ [][Next]_vars

-----------------------------------------------------------------------------
(* find_video_files(root, ext) called on its own.                          *)

InitFind ==
    /\ disk \in FindDisks
    /\ call \in {[fn |-> "find_video_files", root |-> Root, ext |-> ext] :
                    ext \in FindExts}
    /\ pc = "find"
    /\ args = NoArgs
    /\ tasks = <<>>
    /\ metadata_tasks = <<>>
    /\ renamed = <<>>
    /\ output = <<>>
    /\ status = "running"
    /\ ret = NoRet

FindCall ==
    /\ pc = "find"
    /\ ret' = [ret |-> "list", files |-> find_video_files(disk, call.root, call.ext)]
    /\ pc' = "found"
    /\ UNCHANGED <<disk, args, tasks, metadata_tasks, renamed, output, status, call>>

NextFind == FindCall

SpecFind == InitFind /\ [][NextFind]_vars

-----------------------------------------------------------------------------
(* parse_video_file(filename) called on its own.                           *)

ClipPath == Append(Root, <<"c", "l", "i", "p", "1", ".", "m", "p", "4">>)

FileDisk(path, media) == {[path |-> path, kind |-> "file", media |-> media]}

InitParse ==
    /\ disk \in {FileDisk(ClipPath, m) : m \in AllMedia}
    /\ call = [fn |-> "parse_video_file", filename |-> ClipPath]
    /\ pc = "parse"
    /\ args = NoArgs
    /\ tasks = <<>>
    /\ metadata_tasks = <<>>
    /\ renamed = <<>>
    /\ output = <<>>
    /\ status = "running"
    /\ ret = NoRet

ParseCall ==
    /\ pc = "parse"
    /\ ret' = parse_video_file(disk, call.filename)
    /\ pc' = "parsed"
    /\ UNCHANGED <<disk, args, tasks, metadata_tasks, renamed, output, status, call>>

NextParse == ParseCall

SpecParse == InitParse /\ [][NextParse]_vars

-----------------------------------------------------------------------------
(* rename_video_file(video_info, prefix, dry_run, verbose) called on its   *)
(* own, on the VideoInfo of a file of the disk.                            *)

LateMedia == Media(<<Stream("video", Some(Rate_ntsc), Some(640), Some(1080),
                            Tags(Some(Time_late)))>>)

RenameDisks ==
    {FileDisk(ClipPath, OkMedia)}
    \cup {DiskOf(t) : t \in Trees(RenameNodes, {"dir", "file"}, {Str_mp4, Str_MP4},
                                  {OkMedia, LateMedia, ErrorMedia})}

(* no prefix, a plain one, one with a separator, an absolute one *)
RenamePrefixes == Prefixes \cup {<<"s", "/", "v">>, <<"/", "t", "/", "v">>}

InitRename ==
    /\ disk \in RenameDisks
    /\ call \in {[fn |-> "rename_video_file", video_info |-> v, prefix |-> prefix,
                  dry_run |-> dry_run, verbose |-> verbose] :
                    v \in {parse_video_file(disk, e.path) :
                               e \in {f \in disk : f.kind = "file" /\ ~f.media.error}},
                    prefix \in RenamePrefixes, dry_run \in BOOLEAN,
                    verbose \in 0..MaxVerbose}
    /\ pc = "rename_call"
    /\ args = NoArgs
    /\ tasks = <<>>
    /\ metadata_tasks = <<>>
    /\ renamed = <<>>
    /\ output = <<>>
    /\ status = "running"
    /\ ret = NoRet

RenameCall ==
    /\ pc = "rename_call"
    /\ LET r == rename_video_file(disk, call.video_info, call.prefix,
                                  call.dry_run, call.verbose)
       IN  /\ ret' = r
           /\ disk' = r.disk
           /\ output' = output \o r.output
    /\ pc' = "rename_returned"
    /\ UNCHANGED <<args, tasks, metadata_tasks, renamed, status, call>>

NextRename == RenameCall

SpecRename == InitRename /\ [][NextRename]_vars

-----------------------------------------------------------------------------
(* Properties.                                                             *)

Range(q) == {q[i] : i \in 1..Len(q)}

ProbeFails(f) == Probe(disk, f).error

Extractable(f) == parse_video_file(disk, f).ret = "VideoInfo"

Reported(f) == \E i \in 1..Len(renamed) : renamed[i].src = f

(* the video stream of f carries a creation_time that strptime rejects *)
MalformedTime(f) ==
    LET m == Probe(disk, f)
        k == FirstVideo(m.streams, 1)
    IN  /\ ~m.error
        /\ k # 0
        /\ m.streams[k].tags.some
        /\ m.streams[k].tags.v.creation_time.some
        /\ ~Strptime(m.streams[k].tags.v.creation_time.v).ok

(* C1: in a batch whose files either fail the probe or carry valid         *)
(* metadata, once main has ended no file that failed the probe was handed  *)
(* to the rename step and every other file was: its target was built and   *)
(* reported.                                                               *)
C1_ProbeErrorExcluded ==
    (/\ pc \in {"done", "crashed"}
     /\ \A f \in Range(args.input_files) : ProbeFails(f) \/ Extractable(f))
    => \A f \in Range(args.input_files) :
           /\ ProbeFails(f) => ~Reported(f)
           /\ Extractable(f) => Reported(f)

(* C2: parse_video_file never raises: it returns None or a VideoInfo, and  *)
(* a VideoInfo only with all four fields obtained and parsed.              *)
C2_ParseNeverRaises ==
    pc = "parsed" =>
        /\ ret.ret \in {"None", "VideoInfo"}
        /\ ret.ret = "VideoInfo" =>
               LET m == Probe(disk, call.filename)
                   v == m.streams[FirstVideo(m.streams, 1)]
               IN  /\ ~m.error
                   /\ v.r_frame_rate.some /\ v.width.some /\ v.height.some
                   /\ v.tags.some /\ v.tags.v.creation_time.some
                   /\ Strptime(v.tags.v.creation_time.v).ok
                   /\ ret.info.path = call.filename

(* C3: a batch with a file whose creation time does not parse, its other   *)
(* files valid, does not crash, and when main is done every valid file     *)
(* reached the rename step.                                                *)
C3_MalformedTimeIsolated ==
    (/\ \E f \in Range(args.input_files) : MalformedTime(f)
     /\ \A f \in Range(args.input_files) : MalformedTime(f) \/ Extractable(f))
    => /\ pc # "crashed"
       /\ pc = "done" => \A f \in Range(args.input_files) :
                             Extractable(f) => Reported(f)

(* C4: find_video_files(root, ext) returns, once each, exactly the regular *)
(* files of the tree whose extension equals ext without regard to case.    *)
C4_FindExactly ==
    pc = "found" =>
        /\ Range(ret.files) =
               {e.path : e \in {f \in disk : /\ f.kind = "file"
                                             /\ Lower(Suffix(f.path)) = Lower(call.ext)}}
        /\ Len(ret.files) = Cardinality(Range(ret.files))

(* the name of section 4.3: prefix or stem, width x height, fps, the       *)
(* creation time as %Y-%m-%dT%H%M%S, the extension lowercased              *)
ExpectedName(video_info, prefix) ==
    (IF prefix # <<>> THEN prefix ELSE Stem(video_info.path))
    \o <<"_">> \o IntStr(video_info.resolution[1]) \o <<"x">>
    \o IntStr(video_info.resolution[2])
    \o <<"_">> \o IntStr(video_info.fps) \o <<"f", "p", "s">>
    \o <<"_">> \o Pad(video_info.creation_time.year, 4) \o <<"-">>
    \o Pad(video_info.creation_time.month, 2) \o <<"-">>
    \o Pad(video_info.creation_time.day, 2) \o <<"T">>
    \o Pad(video_info.creation_time.hour, 2)
    \o Pad(video_info.creation_time.minute, 2)
    \o Pad(video_info.creation_time.second, 2)
    \o Lower(Suffix(video_info.path))

ClipMetadata ==
    <<"_", "1", "9", "2", "0", "x", "1", "0", "8", "0", "_", "3", "0", "f", "p", "s",
      "_", "2", "0", "2", "3", "-", "0", "5", "-", "0", "1", "T", "1", "2", "3", "0",
      "0", "0", ".", "m", "p", "4">>

IsClipExample(video_info) ==
    /\ Stem(video_info.path) = <<"c", "l", "i", "p", "1">>
    /\ Suffix(video_info.path) = Str_mp4
    /\ video_info.resolution = <<1920, 1080>>
    /\ video_info.fps = 30
    /\ video_info.creation_time =
           [year |-> 2023, month |-> 5, day |-> 1, hour |-> 12, minute |-> 30,
            second |-> 0, microsecond |-> 0]

(* C5: the new file name is prefix-or-stem _ WxH _ fps "fps" _ creation    *)
(* time _ and the lowercased extension, whatever dry_run and verbose are;  *)
(* clip1 gives clip1_1920x1080_30fps_2023-05-01T123000.mp4, and with the   *)
(* prefix vacation vacation_1920x1080_30fps_2023-05-01T123000.mp4.         *)
C5_NewFilename ==
    pc = "rename_returned" =>
        /\ ret.new_filename = ExpectedName(call.video_info.info, call.prefix)
        /\ IsClipExample(call.video_info.info) =>
               /\ call.prefix = <<>> =>
                      ret.new_filename = <<"c", "l", "i", "p", "1">> \o ClipMetadata
               /\ call.prefix = <<"v", "a", "c", "a", "t", "i", "o", "n">> =>
                      ret.new_filename = <<"v", "a", "c", "a", "t", "i", "o", "n">>
                                         \o ClipMetadata

C5_Witness ==
    /\ pc = "rename_returned"
    /\ call.prefix = <<>>
    /\ Suffix(call.video_info.info.path) = Str_MP4
    /\ Len(ret.new_filename) > Len(ClipMetadata)

(* C6: the target path of rename_video_file has the parent directory of    *)
(* the source file, for every prefix.                                      *)
C6_SameParent ==
    pc = "rename_returned" =>
        Parent(ret.p) = Parent(call.video_info.info.path)

(* C7: the run never ends by an uncaught exception or a status other than  *)
(* 0, whichever files fail.                                                *)
C7_ExitStatusZero ==
    /\ pc # "crashed"
    /\ status \in {"running", "exit 0"}

(* C8: main submits one extraction task per discovered file, in order, and *)
(* whenever the rename loop runs or has reported a file, every extraction  *)
(* task is done.                                                           *)
C8_Barrier ==
    /\ pc \notin {"start", "dispatch"} =>
           /\ Len(tasks) = Len(args.input_files)
           /\ \A i \in 1..Len(tasks) : tasks[i].file = args.input_files[i]
    /\ (pc = "rename" \/ renamed # <<>>) =>
           \A i \in 1..Len(tasks) : tasks[i].state = "done"

C8_Witness ==
    /\ pc = "rename"
    /\ Len(tasks) >= 2
    /\ renamed # <<>>

C10_OrderPreserved ==
    (/\ pc \in {"rename", "done"}
     /\ \A f \in Range(args.input_files) : Extractable(f))
    => /\ Len(metadata_tasks) = Len(args.input_files)
       /\ \A i \in 1..Len(metadata_tasks) :
              /\ metadata_tasks[i].ret = "VideoInfo"
              /\ metadata_tasks[i].info.path = args.input_files[i]
              /\ metadata_tasks[i] = parse_video_file(disk, args.input_files[i])
       /\ \A i \in 1..Len(renamed) : renamed[i].src = args.input_files[i]

C10_Witness ==
    /\ pc = "done"
    /\ Len(renamed) >= 2
    /\ \A f \in Range(args.input_files) : Extractable(f)

=============================================================================
